---- MODULE Spec2Model ----
(***************************************************************************)
(* The blog application of main.py / forms.py as a state machine.          *)
(*                                                                         *)
(* State: the three tables (users, blog_posts, comments), the login        *)
(* session of every browser, the request every browser has in flight, the  *)
(* wall clock read by datetime.now(), and the reply sent by the last step.  *)
(* One action per route handler.  A handler that reads the database and     *)
(* commits later is cut at its commits, so that requests of different       *)
(* browsers interleave the way the server lets them.                        *)
(*                                                                         *)
(* Database: the default sqlite:///blog.db (main.py:30).  Integer primary   *)
(* keys are rowid aliases (new id = largest id + 1, 1 in an empty table),   *)
(* unique columns are enforced, foreign keys are not.                       *)
(***************************************************************************)
EXTENDS Integers, Sequences, FiniteSets, TLC

VARIABLES users, posts, comments, session, cur, now, last

vars == <<users, posts, comments, session, cur, now, last>>
db   == <<users, posts, comments>>

(***************************************************************************)
(* Bounds of the model.                                                     *)
(***************************************************************************)
MaxUsers == 3
MaxPosts == 2
MaxComments == 2
MaxNow == 1
StartHour == 14
TickHours == 14

Clients == {"b1", "b2"}

(* Values a browser can put in the fields of a form; "" is an empty field. *)
Usernames == {"", "alice"}
Emails    == {"", "a@x.com", "b@x.com"}
Passwords == {"", "pw", "qw"}
Salts     == {"salt8"}
Titles    == {"", "T1", "T2"}
Subtitles == {"", "sub"}
Bodies    == {"", "body"}
ImgUrls   == {"", "not a url", "http://x.io/i.png"}
Texts     == {"", "nice"}
PostIds   == 1..(MaxPosts + 1)
CommentIds == 1..(MaxComments + 1)
Pages     == 0..2

NULL == 0
Anonymous == 0
AdminId == 1
PerPage == 5

(***************************************************************************)
(* Helpers on tables: a table is a function from the ids of its rows.       *)
(***************************************************************************)
Max(S) == CHOOSE x \in S : \A y \in S : y <= x

(* sqlite rowid allocation for an INTEGER PRIMARY KEY column. *)
NextId(table) == IF DOMAIN table = {} THEN 1 ELSE Max(DOMAIN table) + 1

Insert(table, id, row) == table @@ (id :> row)

Delete(table, id) == [i \in (DOMAIN table) \ {id} |-> table[i]]

(***************************************************************************)
(* werkzeug.security: the stored password is method$salt$digest, the       *)
(* digest a one-way function of salt and password (kept symbolic).          *)
(***************************************************************************)
NoHash == [method |-> "", salt |-> "", digest |-> <<"", "">>]

generate_password_hash(password, salt) ==
    [method |-> "pbkdf2:sha256", salt |-> salt, digest |-> <<salt, password>>]

(* Mutant: any password passes the check. *)
check_password_hash_any(pwhash, password) == TRUE

check_password_hash(pwhash, password) ==
    /\ pwhash.method = "pbkdf2:sha256"
    /\ pwhash.digest = <<pwhash.salt, password>>

(***************************************************************************)
(* datetime.now().strftime("%H:%M%p %d %B, %Y").  The clock counts the     *)
(* readings taken: reading n is StartHour + n * TickHours hours after       *)
(* 2021-01-01 00:00.  The result is the text, as a sequence of character    *)
(* codes, which is what the date columns store and what ORDER BY compares.  *)
(***************************************************************************)
HoursAt(n) == StartHour + n * TickHours

Digit2(n) == <<48 + (n \div 10), 48 + (n % 10)>>

MonthName(dayOfYear) ==
    IF dayOfYear < 31
    THEN <<74, 97, 110, 117, 97, 114, 121>>            \* January
    ELSE <<70, 101, 98, 114, 117, 97, 114, 121>>       \* February

DayOfMonth(dayOfYear) == IF dayOfYear < 31 THEN dayOfYear + 1 ELSE dayOfYear - 30

strftime(n) ==
    LET h    == HoursAt(n)
        hour == h % 24
        day  == h \div 24
    IN  Digit2(hour) \o <<58>> \o Digit2(0)
        \o (IF hour < 12 THEN <<65, 77>> ELSE <<80, 77>>)
        \o <<32>> \o Digit2(DayOfMonth(day))
        \o <<32>> \o MonthName(day)
        \o <<44, 32>> \o <<50, 48, 50, 49>>

(* Binary collation of two texts: a sorts before b. *)
RECURSIVE TextLess(_, _)
TextLess(a, b) ==
    IF b = <<>> THEN FALSE
    ELSE IF a = <<>> THEN TRUE
    ELSE IF Head(a) # Head(b) THEN Head(a) < Head(b)
    ELSE TextLess(Tail(a), Tail(b))

(***************************************************************************)
(* forms.py: DataRequired and URL.                                          *)
(***************************************************************************)
DataRequired(field) == field # ""

URL(field) == field \in {"http://x.io/i.png"}

NoForm == [title |-> "", subtitle |-> "", img_url |-> "", body |-> ""]

(* Mutant: img_url without its URL validator. *)
CreatePostFormValidNoURL(form) ==
    /\ DataRequired(form.title)
    /\ DataRequired(form.subtitle)
    /\ DataRequired(form.img_url)
    /\ DataRequired(form.body)

CreatePostFormValid(form) ==
    /\ DataRequired(form.title)
    /\ DataRequired(form.subtitle)
    /\ DataRequired(form.img_url) /\ URL(form.img_url)
    /\ DataRequired(form.body)

RegisterUserFormValid(username, email, password) ==
    DataRequired(username) /\ DataRequired(email) /\ DataRequired(password)

LoginUserFormValid(email, password) ==
    DataRequired(email) /\ DataRequired(password)

CommentFormValid(text) == DataRequired(text)

(* flask: validate_on_submit() is false for a GET. *)
validate_on_submit(method, valid) == method = "POST" /\ valid

(***************************************************************************)
(* Queries.                                                                 *)
(***************************************************************************)
(* Mutant: the lookup of an existing user finds nobody. *)
UserByEmailFindsNobody(email) == NULL

(* User.query.filter_by(email=email).first(): the user's id, or NULL. *)
UserByEmail(email) ==
    IF \E i \in 1..Len(users) : users[i].email = email
    THEN CHOOSE i \in 1..Len(users) :
            /\ users[i].email = email
            /\ \A j \in 1..Len(users) : users[j].email = email => i <= j
    ELSE NULL

(* Mutant: users.email without its unique constraint. *)
EmailNotUnique(email) == FALSE

(* The unique constraint on users.email rejects the insert. *)
EmailTaken(email) == \E i \in 1..Len(users) : users[i].email = email

(* The unique constraint on blog_posts.title rejects a row (other than id). *)
TitleTaken(title, id) ==
    \E i \in DOMAIN posts : i # id /\ posts[i].title = title

(* Comment.query.filter_by(post_id=post_id).all(), as a sequence of ids. *)
RECURSIVE SeqOfSet(_)
SeqOfSet(S) ==
    IF S = {} THEN <<>>
    ELSE LET m == CHOOSE x \in S : \A y \in S : x <= y
         IN  <<m>> \o SeqOfSet(S \ {m})

(* Mutant: the query is not filtered by post. *)
CommentsOfAnyPost(post_id) == SeqOfSet(DOMAIN comments)

CommentsOf(post_id) ==
    SeqOfSet({i \in DOMAIN comments : comments[i].post_id = post_id})

(***************************************************************************)
(* admin_only and login_required.                                           *)
(***************************************************************************)
(* Mutant: everybody counts as logged in. *)
is_authenticated_always(user) == TRUE

is_authenticated(user) == user # Anonymous

(* Mutant: the check of the user's id is left out. *)
IsAdminAnyUser(user) == is_authenticated(user)

IsAdmin(user) == is_authenticated(user) /\ user = AdminId

(***************************************************************************)
(* Rows, requests in flight and replies.                                    *)
(***************************************************************************)
NoUser == [username |-> "", email |-> "", password |-> NoHash]

(* No request in flight. *)
Idle == [route |-> "none", pc |-> "done", user |-> Anonymous, post_id |-> NULL,
         todo |-> <<>>, new_user |-> NoUser, text |-> "",
         form |-> NoForm, orig |-> NoForm]

AdminRoutes == {"add_new_post", "edit_post", "delete_post", "delete_all_comments"}

(* What the step just taken did: whose request, which route, the session    *)
(* user it ran as, what validate_on_submit() saw ("none": no form, or a     *)
(* GET), and the reply (code 0: the request is still being handled).        *)
Reply(c, route, user, form, code, to, items) ==
    [client |-> c, route |-> route, user |-> user, form |-> form,
     code |-> code, to |-> to, items |-> items]

Submitted(method, valid) ==
    IF method = "GET" THEN "none" ELSE IF valid THEN "valid" ELSE "invalid"

Init ==
    /\ users = <<>>
    /\ posts = <<>>
    /\ comments = <<>>
    /\ session = [c \in Clients |-> Anonymous]
    /\ cur = [c \in Clients |-> Idle]
    /\ now = 0
    /\ last = Reply("b1", "none", Anonymous, "none", 0, "", <<>>)

(* datetime.now() moves on. *)
Tick ==
    /\ now' = now + 1
    /\ UNCHANGED <<users, posts, comments, session, cur, last>>

(***************************************************************************)
(* GET /  (get_all_posts)                                                   *)
(***************************************************************************)
(* ORDER BY date DESC: every order of the ids in S the database may return  *)
(* (rows with equal dates come in any order).                               *)
RECURSIVE OrderByDateDesc(_)
OrderByDateDesc(S) ==
    IF S = {} THEN {<<>>}
    ELSE UNION {
           {<<m>> \o t : t \in OrderByDateDesc(S \ {m})} :
           m \in {x \in S : \A y \in S : ~TextLess(posts[x].date, posts[y].date)} }

(* paginate(page, per_page): LIMIT per_page OFFSET (page - 1) * per_page. *)
Paginate(order, page, per_page) ==
    SubSeq(order, (page - 1) * per_page + 1,
           IF page * per_page < Len(order) THEN page * per_page ELSE Len(order))

get_all_posts(c, page) ==
    /\ cur[c].pc = "done"
    /\ \E order \in OrderByDateDesc(DOMAIN posts) :
         LET items == IF page < 1 THEN <<>> ELSE Paginate(order, page, PerPage)
         IN  last' = IF page < 1 \/ (items = <<>> /\ page # 1)
                     THEN Reply(c, "get_all_posts", session[c], "none", 404, "", <<>>)
                     ELSE Reply(c, "get_all_posts", session[c], "none", 200,
                                "index.html", items)
    /\ UNCHANGED <<users, posts, comments, session, cur, now>>

(***************************************************************************)
(* /register                                                                *)
(***************************************************************************)
register(c, method, username, email, password, salt) ==
    /\ cur[c].pc = "done"
    /\ LET valid    == RegisterUserFormValid(username, email, password)
           new_user == [username |-> username, email |-> email,
                        password |-> generate_password_hash(password, salt)]
           form     == Submitted(method, valid)
       IN  IF ~validate_on_submit(method, valid)
           THEN /\ last' = Reply(c, "register", session[c], form, 200,
                                 "register.html", <<>>)
                /\ UNCHANGED cur
           ELSE IF UserByEmail(email) # NULL
           THEN /\ last' = Reply(c, "register", session[c], form, 302, "login", <<>>)
                /\ UNCHANGED cur
           ELSE /\ cur' = [cur EXCEPT ![c] = [Idle EXCEPT
                                 !.route = "register", !.pc = "commit",
                                 !.user = session[c], !.new_user = new_user]]
                /\ last' = Reply(c, "register", session[c], form, 0, "", <<>>)
    /\ UNCHANGED <<users, posts, comments, session, now>>

(* db.session.add(new_user); db.session.commit(); login_user(new_user) *)
register_commit(c) ==
    /\ cur[c].route = "register" /\ cur[c].pc = "commit"
    /\ cur' = [cur EXCEPT ![c] = Idle]
    /\ IF EmailTaken(cur[c].new_user.email)
       THEN /\ last' = Reply(c, "register", cur[c].user, "valid", 500, "", <<>>)
            /\ UNCHANGED <<users, session>>
       ELSE /\ users' = Append(users, cur[c].new_user)
            /\ session' = [session EXCEPT ![c] = Len(users) + 1]
            /\ last' = Reply(c, "register", cur[c].user, "valid", 302,
                             "get_all_posts", <<>>)
    /\ UNCHANGED <<posts, comments, now>>

(***************************************************************************)
(* /login, /logout                                                          *)
(***************************************************************************)
login(c, method, email, password) ==
    /\ cur[c].pc = "done"
    /\ LET valid == LoginUserFormValid(email, password)
           form  == Submitted(method, valid)
           user  == UserByEmail(email)
       IN  IF ~validate_on_submit(method, valid)
           THEN /\ last' = Reply(c, "login", session[c], form, 200, "login.html", <<>>)
                /\ UNCHANGED session
           ELSE IF user = NULL
           THEN /\ last' = Reply(c, "login", session[c], form, 302, "login", <<>>)
                /\ UNCHANGED session
           ELSE IF ~check_password_hash(users[user].password, password)
           THEN /\ last' = Reply(c, "login", session[c], form, 302, "login", <<>>)
                /\ UNCHANGED session
           ELSE /\ session' = [session EXCEPT ![c] = user]
                /\ last' = Reply(c, "login", session[c], form, 302,
                                 "get_all_posts", <<>>)
    /\ UNCHANGED <<users, posts, comments, cur, now>>

logout(c) ==
    /\ cur[c].pc = "done"
    /\ session' = [session EXCEPT ![c] = Anonymous]
    /\ last' = Reply(c, "logout", session[c], "none", 302, "get_all_posts", <<>>)
    /\ UNCHANGED <<users, posts, comments, cur, now>>

(***************************************************************************)
(* /post/<post_id>  (show_post)                                             *)
(***************************************************************************)
(* BlogPost.query.get(post_id): the row's id, or NULL (None). *)
GetPost(post_id) == IF post_id \in DOMAIN posts THEN post_id ELSE NULL

show_post(c, post_id, method, text) ==
    /\ cur[c].pc = "done"
    /\ LET requested_post == GetPost(post_id)
           valid == CommentFormValid(text)
           form  == Submitted(method, valid)
       IN  IF ~validate_on_submit(method, valid)
           THEN /\ last' = Reply(c, "show_post", session[c], form, 200,
                                 "post.html", <<>>)
                /\ UNCHANGED cur
           ELSE IF ~is_authenticated(session[c])
           THEN /\ last' = Reply(c, "show_post", session[c], form, 302, "login", <<>>)
                /\ UNCHANGED cur
           ELSE /\ cur' = [cur EXCEPT ![c] = [Idle EXCEPT
                                 !.route = "show_post", !.pc = "commit",
                                 !.user = session[c],
                                 !.post_id = requested_post, !.text = text]]
                /\ last' = Reply(c, "show_post", session[c], form, 0, "", <<>>)
    /\ UNCHANGED <<users, posts, comments, session, now>>

(* db.session.add(new_comment); db.session.commit().  parent_post=None is   *)
(* stored as post_id NULL; the column is nullable and sqlite checks no      *)
(* foreign key, so the insert goes through whatever became of the post.     *)
show_post_commit(c) ==
    /\ cur[c].route = "show_post" /\ cur[c].pc = "commit"
    /\ comments' = Insert(comments, NextId(comments),
                          [post_id |-> cur[c].post_id, author_id |-> cur[c].user,
                           text |-> cur[c].text, date |-> strftime(now)])
    /\ cur' = [cur EXCEPT ![c] = Idle]
    /\ last' = Reply(c, "show_post", cur[c].user, "valid", 200, "post.html", <<>>)
    /\ UNCHANGED <<users, posts, session, now>>

(***************************************************************************)
(* /about, /contact                                                         *)
(***************************************************************************)
about(c) ==
    /\ cur[c].pc = "done"
    /\ last' = Reply(c, "about", session[c], "none", 200, "about.html", <<>>)
    /\ UNCHANGED <<users, posts, comments, session, cur, now>>

contact(c) ==
    /\ cur[c].pc = "done"
    /\ last' = Reply(c, "contact", session[c], "none", 200, "contact.html", <<>>)
    /\ UNCHANGED <<users, posts, comments, session, cur, now>>

(***************************************************************************)
(* /new-post  (add_new_post, admin only)                                    *)
(***************************************************************************)
add_new_post(c, method, form) ==
    /\ cur[c].pc = "done"
    /\ LET valid == CreatePostFormValid(form)
           sub   == Submitted(method, valid)
       IN  IF ~IsAdmin(session[c])
           THEN /\ last' = Reply(c, "add_new_post", session[c], "none", 403, "", <<>>)
                /\ UNCHANGED posts
           ELSE IF ~validate_on_submit(method, valid)
           THEN /\ last' = Reply(c, "add_new_post", session[c], sub, 200,
                                 "make-post.html", <<>>)
                /\ UNCHANGED posts
           ELSE IF TitleTaken(form.title, NULL)
           THEN /\ last' = Reply(c, "add_new_post", session[c], sub, 500, "", <<>>)
                /\ UNCHANGED posts
           ELSE /\ posts' = Insert(posts, NextId(posts),
                                   [author_id |-> session[c],
                                    title |-> form.title,
                                    subtitle |-> form.subtitle,
                                    body |-> form.body,
                                    img_url |-> form.img_url,
                                    date |-> strftime(now),
                                    created |-> now])
                /\ last' = Reply(c, "add_new_post", session[c], sub, 302,
                                 "get_all_posts", <<>>)
    /\ UNCHANGED <<users, comments, session, cur, now>>

(***************************************************************************)
(* /edit-post/<post_id>  (edit_post, admin only)                            *)
(***************************************************************************)
FormOf(post) == [title |-> post.title, subtitle |-> post.subtitle,
                 img_url |-> post.img_url, body |-> post.body]

edit_post(c, post_id, method, form) ==
    /\ cur[c].pc = "done"
    /\ LET post  == GetPost(post_id)
           valid == CreatePostFormValid(form)
           sub   == Submitted(method, valid)
       IN  IF ~IsAdmin(session[c])
           THEN /\ last' = Reply(c, "edit_post", session[c], "none", 403, "", <<>>)
                /\ UNCHANGED cur
           ELSE IF post = NULL        \* post.title of None: AttributeError
           THEN /\ last' = Reply(c, "edit_post", session[c], "none", 500, "", <<>>)
                /\ UNCHANGED cur
           ELSE IF ~validate_on_submit(method, valid)
           THEN /\ last' = Reply(c, "edit_post", session[c], sub, 200,
                                 "make-post.html", <<>>)
                /\ UNCHANGED cur
           ELSE /\ cur' = [cur EXCEPT ![c] = [Idle EXCEPT
                                 !.route = "edit_post", !.pc = "commit",
                                 !.user = session[c], !.post_id = post,
                                 !.form = form, !.orig = FormOf(posts[post])]]
                /\ last' = Reply(c, "edit_post", session[c], sub, 0, "", <<>>)
    /\ UNCHANGED <<users, posts, comments, session, now>>

(* post.title = ...; db.session.commit(): the ORM updates the columns whose *)
(* value it changed, in the row with the post's id.  No changed column: no  *)
(* UPDATE.  No such row any more: StaleDataError.  Title of another row:    *)
(* IntegrityError.                                                          *)
edit_post_commit(c) ==
    /\ cur[c].route = "edit_post" /\ cur[c].pc = "commit"
    /\ cur' = [cur EXCEPT ![c] = Idle]
    /\ LET id      == cur[c].post_id
           form    == cur[c].form
           changed == {f \in DOMAIN form : form[f] # cur[c].orig[f]}
       IN  IF changed = {}
           THEN /\ last' = Reply(c, "edit_post", cur[c].user, "valid", 302,
                                 "show_post", <<>>)
                /\ UNCHANGED posts
           ELSE IF id \notin DOMAIN posts
                   \/ ("title" \in changed /\ TitleTaken(form.title, id))
           THEN /\ last' = Reply(c, "edit_post", cur[c].user, "valid", 500, "", <<>>)
                /\ UNCHANGED posts
           ELSE /\ posts' = [posts EXCEPT ![id] =
                               [f \in DOMAIN posts[id] |->
                                  IF f \in changed THEN form[f] ELSE posts[id][f]]]
                /\ last' = Reply(c, "edit_post", cur[c].user, "valid", 302,
                                 "show_post", <<>>)
    /\ UNCHANGED <<users, comments, session, now>>

(***************************************************************************)
(* /delete-comments/<post_id>  (delete_all_comments, admin only) and        *)
(* /delete-post/<post_id>  (delete_post, admin only), which calls it.       *)
(***************************************************************************)
(* comments_to_delete = Comment.query.filter_by(post_id=post_id).all() *)
delete_all_comments(c, post_id) ==
    /\ cur[c].pc = "done"
    /\ IF ~IsAdmin(session[c])
       THEN /\ last' = Reply(c, "delete_all_comments", session[c], "none", 403,
                             "", <<>>)
            /\ UNCHANGED cur
       ELSE /\ cur' = [cur EXCEPT ![c] = [Idle EXCEPT
                             !.route = "delete_all_comments", !.pc = "loop",
                             !.user = session[c], !.post_id = post_id,
                             !.todo = CommentsOf(post_id)]]
            /\ last' = Reply(c, "delete_all_comments", session[c], "none", 0,
                             "", <<>>)
    /\ UNCHANGED <<users, posts, comments, session, now>>

delete_post(c, post_id) ==
    /\ cur[c].pc = "done"
    /\ IF ~IsAdmin(session[c])
       THEN /\ last' = Reply(c, "delete_post", session[c], "none", 403, "", <<>>)
            /\ UNCHANGED cur
       ELSE /\ cur' = [cur EXCEPT ![c] = [Idle EXCEPT
                             !.route = "delete_post", !.pc = "loop",
                             !.user = session[c], !.post_id = post_id,
                             !.todo = CommentsOf(post_id)]]
            /\ last' = Reply(c, "delete_post", session[c], "none", 0, "", <<>>)
    /\ UNCHANGED <<users, posts, comments, session, now>>

(* for comment in comments_to_delete: db.session.delete(comment); commit.   *)
(* When another request has deleted the row meanwhile, the DELETE matches   *)
(* no row: the ORM goes on with a warning (gone = "skip") or fails the      *)
(* request (gone = "fail"), depending on its version.                       *)
delete_comments_loop(c, gone) ==
    /\ cur[c].route \in {"delete_all_comments", "delete_post"}
    /\ cur[c].pc = "loop"
    /\ cur[c].todo # <<>>
    /\ LET comment == Head(cur[c].todo)
       IN  IF comment \in DOMAIN comments
           THEN /\ gone = "skip"
                /\ comments' = Delete(comments, comment)
                /\ cur' = [cur EXCEPT ![c].todo = Tail(@)]
                /\ last' = Reply(c, cur[c].route, cur[c].user, "none", 0, "", <<>>)
           ELSE IF gone = "skip"
           THEN /\ UNCHANGED comments
                /\ cur' = [cur EXCEPT ![c].todo = Tail(@)]
                /\ last' = Reply(c, cur[c].route, cur[c].user, "none", 0, "", <<>>)
           ELSE /\ UNCHANGED comments
                /\ cur' = [cur EXCEPT ![c] = Idle]
                /\ last' = Reply(c, cur[c].route, cur[c].user, "none", 500, "", <<>>)
    /\ UNCHANGED <<users, posts, session, now>>

(* return redirect(url_for("get_all_posts", post=post_id)) *)
delete_all_comments_return(c) ==
    /\ cur[c].route = "delete_all_comments"
    /\ cur[c].pc = "loop"
    /\ cur[c].todo = <<>>
    /\ cur' = [cur EXCEPT ![c] = Idle]
    /\ last' = Reply(c, "delete_all_comments", cur[c].user, "none", 302,
                     "get_all_posts", <<>>)
    /\ UNCHANGED <<users, posts, comments, session, now>>

(* Deleting a BlogPost: the comments relationship has no delete cascade, so *)
(* the ORM sets post_id to NULL in the comments the post still has, then    *)
(* deletes the post's row.                                                  *)
DeleteBlogPost(id) ==
    /\ comments' = [i \in DOMAIN comments |->
                      IF comments[i].post_id = id
                      THEN [comments[i] EXCEPT !.post_id = NULL]
                      ELSE comments[i]]
    /\ posts' = Delete(posts, id)

(* post_to_delete = BlogPost.query.get(post_id); db.session.delete(...);    *)
(* db.session.commit().  delete(None) raises UnmappedInstanceError.         *)
delete_post_commit(c) ==
    /\ cur[c].route = "delete_post"
    /\ cur[c].pc = "loop"
    /\ cur[c].todo = <<>>
    /\ cur' = [cur EXCEPT ![c] = Idle]
    /\ LET post_to_delete == GetPost(cur[c].post_id)
       IN  IF post_to_delete = NULL
           THEN /\ last' = Reply(c, "delete_post", cur[c].user, "none", 500, "", <<>>)
                /\ UNCHANGED <<posts, comments>>
           ELSE /\ DeleteBlogPost(post_to_delete)
                /\ last' = Reply(c, "delete_post", cur[c].user, "none", 302,
                                 "get_all_posts", <<>>)
    /\ UNCHANGED <<users, session, now>>

(***************************************************************************)
(* /delete-comment/<post_id>/<comment_id>  (delete_comment, login required) *)
(***************************************************************************)
(* Comment.query.get(comment_id): the row's id, or NULL (None). *)
GetComment(comment_id) ==
    IF comment_id \in DOMAIN comments THEN comment_id ELSE NULL

delete_comment(c, post_id, comment_id) ==
    /\ cur[c].pc = "done"
    /\ LET comment_to_delete == GetComment(comment_id)
       IN  IF ~is_authenticated(session[c])     \* login_required, no login_view
           THEN /\ last' = Reply(c, "delete_comment", session[c], "none", 401,
                                 "", <<>>)
                /\ UNCHANGED comments
           ELSE IF comment_to_delete = NULL     \* delete(None)
           THEN /\ last' = Reply(c, "delete_comment", session[c], "none", 500,
                                 "", <<>>)
                /\ UNCHANGED comments
           ELSE /\ comments' = Delete(comments, comment_to_delete)
                /\ last' = Reply(c, "delete_comment", session[c], "none", 302,
                                 "show_post", <<>>)
    /\ UNCHANGED <<users, posts, session, cur, now>>

(***************************************************************************)
(* The server: any browser sends any request, any request in flight takes  *)
(* its next step, the clock moves.                                          *)
(***************************************************************************)
(* The forms a browser posts: every field from its set, at most one of them  *)
(* empty or malformed.  A GET carries no form.                              *)
Defects(f) ==
    Cardinality({x \in DOMAIN f : ~DataRequired(f[x])})
    + (IF DataRequired(f.img_url) /\ ~URL(f.img_url) THEN 1 ELSE 0)

PostForms ==
    {f \in [title : Titles, subtitle : Subtitles, img_url : ImgUrls, body : Bodies] :
        Defects(f) <= 1}

PostSubmissions == {<<"GET", NoForm>>} \cup {<<"POST", f>> : f \in PostForms}

CommentSubmissions == {<<"GET", "">>} \cup {<<"POST", t>> : t \in Texts}

RegisterSubmissions ==
    {<<"GET", "", "", "">>}
    \cup {<<"POST", u, e, p>> : u \in Usernames, e \in Emails, p \in Passwords}

LoginSubmissions ==
    {<<"GET", "", "">>} \cup {<<"POST", e, p>> : e \in Emails, p \in Passwords}

Next ==
    \/ now < MaxNow /\ Tick
    \/ \E c \in Clients, page \in Pages : get_all_posts(c, page)
    \/ \E c \in Clients, sub \in RegisterSubmissions, s \in Salts :
          register(c, sub[1], sub[2], sub[3], sub[4], s)
    \/ \E c \in Clients : Len(users) < MaxUsers /\ register_commit(c)
    \/ \E c \in Clients, sub \in LoginSubmissions : login(c, sub[1], sub[2], sub[3])
    \/ \E c \in Clients : logout(c)
    \/ \E c \in Clients, id \in PostIds, sub \in CommentSubmissions :
          show_post(c, id, sub[1], sub[2])
    \/ \E c \in Clients : NextId(comments) <= MaxComments /\ show_post_commit(c)
    \/ \E c \in Clients : about(c)
    \/ \E c \in Clients : contact(c)
    \/ \E c \in Clients, sub \in PostSubmissions :
          /\ NextId(posts) <= MaxPosts \/ ~IsAdmin(session[c])
          /\ add_new_post(c, sub[1], sub[2])
    \/ \E c \in Clients, id \in PostIds, sub \in PostSubmissions :
          edit_post(c, id, sub[1], sub[2])
    \/ \E c \in Clients : edit_post_commit(c)
    \/ \E c \in Clients, id \in PostIds : delete_all_comments(c, id)
    \/ \E c \in Clients, id \in PostIds : delete_post(c, id)
    \/ \E c \in Clients, gone \in {"skip", "fail"} : delete_comments_loop(c, gone)
    \/ \E c \in Clients : delete_all_comments_return(c)
    \/ \E c \in Clients : delete_post_commit(c)
    \/ \E c \in Clients, id \in PostIds, com \in CommentIds :
          delete_comment(c, id, com)

(* The whole site from the empty database. *)
Spec == Init /\ [][Next]_vars

(***************************************************************************)
(* The accounts: registration, login and logout from the empty database,   *)
(* two browsers at once.                                                    *)
(***************************************************************************)
NextAuth ==
    \/ \E c \in Clients, sub \in RegisterSubmissions, s \in Salts :
          register(c, sub[1], sub[2], sub[3], sub[4], s)
    \/ \E c \in Clients : Len(users) < MaxUsers /\ register_commit(c)
    \/ \E c \in Clients, sub \in LoginSubmissions : login(c, sub[1], sub[2], sub[3])
    \/ \E c \in Clients : logout(c)

SpecAuth == Init /\ [][NextAuth]_vars

(***************************************************************************)
(* States the site is in once the administrator and a second user have     *)
(* registered and logged out again.                                         *)
(***************************************************************************)
admin == [username |-> "alice", email |-> "a@x.com",
          password |-> generate_password_hash("pw", "salt8")]

bob == [username |-> "alice", email |-> "b@x.com",
        password |-> generate_password_hash("qw", "salt8")]

(* Browser b1 is the administrator's, browser b2 the second user's. *)
Logins == {<<"b1", "a@x.com", "pw">>, <<"b2", "b@x.com", "qw">>,
           <<"b2", "b@x.com", "pw">>}

PostAt(title, n) ==
    [author_id |-> AdminId, title |-> title, subtitle |-> "sub", body |-> "body",
     img_url |-> "http://x.io/i.png", date |-> strftime(n), created |-> n]

(* The administrator has written post 1 and the second user commented it. *)
InitAdmin ==
    /\ users = <<admin, bob>>
    /\ posts = (1 :> PostAt("T1", 0))
    /\ comments = (1 :> [post_id |-> 1, author_id |-> 2, text |-> "nice",
                         date |-> strftime(0)])
    /\ session = [c \in Clients |-> Anonymous]
    /\ cur = [c \in Clients |-> Idle]
    /\ now = 0
    /\ last = Reply("b1", "none", Anonymous, "none", 0, "", <<>>)

(* The administrator's routes, called by anybody. *)
NextAdmin ==
    \/ now < MaxNow /\ Tick
    \/ \E a \in Logins : login(a[1], "POST", a[2], a[3])
    \/ \E c \in Clients : logout(c)
    \/ \E c \in Clients, page \in Pages : get_all_posts(c, page)
    \/ \E c \in Clients, sub \in PostSubmissions :
          /\ NextId(posts) <= MaxPosts \/ ~IsAdmin(session[c])
          /\ add_new_post(c, sub[1], sub[2])
    \/ \E c \in Clients, id \in PostIds, sub \in PostSubmissions :
          edit_post(c, id, sub[1], sub[2])
    \/ \E c \in Clients : edit_post_commit(c)
    \/ \E c \in Clients, id \in PostIds : delete_all_comments(c, id)
    \/ \E c \in Clients, id \in PostIds : delete_post(c, id)
    \/ \E c \in Clients, gone \in {"skip", "fail"} : delete_comments_loop(c, gone)
    \/ \E c \in Clients : delete_all_comments_return(c)
    \/ \E c \in Clients : delete_post_commit(c)

SpecAdmin == InitAdmin /\ [][NextAdmin]_vars

(* The administrator has written posts 1 and 2; nobody has commented yet. *)
InitComments ==
    /\ users = <<admin, bob>>
    /\ posts = (1 :> PostAt("T1", 0)) @@ (2 :> PostAt("T2", 0))
    /\ comments = <<>>
    /\ session = [c \in Clients |-> Anonymous]
    /\ cur = [c \in Clients |-> Idle]
    /\ now = 0
    /\ last = Reply("b1", "none", Anonymous, "none", 0, "", <<>>)

(* Commenting and the deletions.  Post ids a request names: the two posts   *)
(* and one that never existed.                                              *)
SeededPostIds == 1..3

NextComments ==
    \/ \E a \in Logins : login(a[1], "POST", a[2], a[3])
    \/ \E c \in Clients : logout(c)
    \/ \E c \in Clients, id \in SeededPostIds, sub \in CommentSubmissions :
          show_post(c, id, sub[1], sub[2])
    \/ \E c \in Clients : NextId(comments) <= MaxComments /\ show_post_commit(c)
    \/ \E c \in Clients, id \in {1}, com \in CommentIds :
          delete_comment(c, id, com)
    \/ \E c \in Clients, id \in SeededPostIds : delete_all_comments(c, id)
    \/ \E c \in Clients, id \in SeededPostIds : delete_post(c, id)
    \/ \E c \in Clients, gone \in {"skip", "fail"} : delete_comments_loop(c, gone)
    \/ \E c \in Clients : delete_all_comments_return(c)
    \/ \E c \in Clients : delete_post_commit(c)

SpecComments == InitComments /\ [][NextComments]_vars

(***************************************************************************)
(* The same requests handled one at a time: a browser's request is taken   *)
(* up, and goes on, only while no other request is in flight.               *)
(***************************************************************************)
Alone(c) == \A d \in Clients \ {c} : cur[d].pc = "done"

NextSerial ==
    \/ \E a \in Logins : Alone(a[1]) /\ login(a[1], "POST", a[2], a[3])
    \/ \E c \in Clients : Alone(c) /\ logout(c)
    \/ \E c \in Clients, id \in SeededPostIds, sub \in CommentSubmissions :
          Alone(c) /\ show_post(c, id, sub[1], sub[2])
    \/ \E c \in Clients :
          Alone(c) /\ NextId(comments) <= MaxComments /\ show_post_commit(c)
    \/ \E c \in Clients, id \in {1}, com \in CommentIds :
          Alone(c) /\ delete_comment(c, id, com)
    \/ \E c \in Clients, id \in SeededPostIds : Alone(c) /\ delete_all_comments(c, id)
    \/ \E c \in Clients, id \in SeededPostIds : Alone(c) /\ delete_post(c, id)
    \/ \E c \in Clients, gone \in {"skip", "fail"} :
          Alone(c) /\ delete_comments_loop(c, gone)
    \/ \E c \in Clients : Alone(c) /\ delete_all_comments_return(c)
    \/ \E c \in Clients : Alone(c) /\ delete_post_commit(c)

SpecSerial == InitComments /\ [][NextSerial]_vars

(***************************************************************************)
(* Claims on the accounts (SpecAuth).                                       *)
(***************************************************************************)
HasEmail(email) == \E i \in 1..Len(users) : users[i].email = email

RegisterRepliesLogin ==
    /\ last'.route = "register" /\ last'.code = 302 /\ last'.to = "login"
    /\ cur' = cur

(* C2, as stated: any Register request (a POST of the three fields) whose   *)
(* email is that of a persisted user leaves the users and every session as  *)
(* they are and is answered with a redirect to the login page.              *)
C2_AsStated ==
    [][last'.route = "register"
       => \A u \in Usernames, e \in Emails, p \in Passwords, s \in Salts :
             (HasEmail(e) /\ register(last'.client, "POST", u, e, p, s))
             => /\ users' = users
                /\ session' = session
                /\ RegisterRepliesLogin]_vars

(* C2, amended: such a request leaves the users and every session as they   *)
(* are; it is answered with a redirect to the login page when its username  *)
(* and password fields are filled in (with one of them empty the form is    *)
(* rendered again).                                                         *)
C2_DuplicateEmailRedirects ==
    [][last'.route = "register"
       => \A u \in Usernames, e \in Emails, p \in Passwords, s \in Salts :
             (HasEmail(e) /\ register(last'.client, "POST", u, e, p, s))
             => /\ users' = users
                /\ session' = session
                /\ (u # "" /\ p # "") => RegisterRepliesLogin
                /\ (u = "" \/ p = "") =>
                      (last'.code = 200 /\ last'.to = "register.html")]_vars

(* A filled-in registration with a persisted email has just been answered   *)
(* with the redirect to the login page.                                     *)
C2_Witness ==
    /\ last.route = "register" /\ last.form = "valid"
    /\ last.code = 302 /\ last.to = "login"
    /\ Len(users) = 1
    /\ session[last.client] = Anonymous

(* C3: no two User rows have the same email, in every reachable state,      *)
(* whatever the interleaving of the Register requests.                      *)
C3_EmailUnique ==
    \A i, j \in 1..Len(users) : users[i].email = users[j].email => i = j

(* Two registrations with the same email both passed the lookup; the first  *)
(* has committed and the second commit has been rejected.                   *)
C3_Witness ==
    /\ last.route = "register" /\ last.code = 500
    /\ Len(users) = 1
    /\ \E c \in Clients : session[c] = 1 /\ c # last.client

(* C5: a Login with the email of a user and the password that user's stored *)
(* hash was made of logs the browser in as that user; any other Login       *)
(* leaves every session as it is (an unauthenticated one unauthenticated).  *)
C5_Login ==
    [][last'.route = "login"
       => \A e \in Emails, p \in Passwords :
             login(last'.client, "POST", e, p)
             => IF \E i \in 1..Len(users) :
                      /\ users[i].email = e
                      /\ users[i].password
                           = generate_password_hash(p, users[i].password.salt)
                THEN \E i \in 1..Len(users) :
                      /\ users[i].email = e
                      /\ session' = [session EXCEPT ![last'.client] = i]
                ELSE /\ session' = session
                     /\ session[last'.client] = 0
                        => session'[last'.client] = 0]_vars

(* A Login with both fields filled in has just failed on an unauthenticated *)
(* browser while a user exists.                                             *)
C5_Witness ==
    /\ last.route = "login" /\ last.form = "valid"
    /\ last.code = 302 /\ last.to = "login"
    /\ Len(users) > 0
    /\ session[last.client] = Anonymous

(***************************************************************************)
(* Claims on the administrator's routes (SpecAdmin).                        *)
(***************************************************************************)
(* C1: a step of a request to an admin-only route is answered 403 exactly   *)
(* when the session user is not user 1 (unauthenticated, or another user),  *)
(* and such a step changes no User, BlogPost or Comment row.                *)
C1_AdminOnly ==
    [][last'.route \in AdminRoutes
       => /\ last'.code = 403 <=> last'.user # 1
          /\ last'.user # 1 =>
                (users' = users /\ posts' = posts /\ comments' = comments)]_vars

(* The second user, logged in, has just asked for an admin-only route and   *)
(* got 403; the post and its comment are still there.                       *)
C1_Witness ==
    /\ last.route \in AdminRoutes /\ last.code = 403
    /\ last.user = 2
    /\ 1 \in DOMAIN posts /\ 1 \in DOMAIN comments

(* Every order of the ids in S by creation, most recent first. *)
RECURSIVE OrderByCreatedDesc(_)
OrderByCreatedDesc(S) ==
    IF S = {} THEN {<<>>}
    ELSE UNION {
           {<<m>> \o t : t \in OrderByCreatedDesc(S \ {m})} :
           m \in {x \in S : \A y \in S : posts[x].created >= posts[y].created} }

(* C7: the page ListPosts returns holds the posts ranked 5(k-1)+1 .. 5k by  *)
(* recency of creation, for the page k asked for.                           *)
C7_PagesByRecency ==
    (last.route = "get_all_posts" /\ last.code = 200)
    => \E k \in Pages \ {0}, order \in OrderByCreatedDesc(DOMAIN posts) :
          last.items = SubSeq(order, 5 * (k - 1) + 1,
                              IF 5 * k < Len(order) THEN 5 * k ELSE Len(order))

(* A form with a required field empty, or an image URL that is no URL. *)
Defective(f) ==
    \/ f.title = "" \/ f.subtitle = "" \/ f.img_url = "" \/ f.body = ""
    \/ f.img_url = "not a url"

FormRenderedAgain ==
    /\ posts' = posts
    /\ cur' = cur
    /\ last'.code = 200 /\ last'.to = "make-post.html"

(* C9: CreatePost, and EditPost of a post that exists, posted by the        *)
(* administrator with a defective form insert and modify no BlogPost, take  *)
(* no further step, and are answered with the form rendered again.          *)
C9_DefectiveFormPersistsNothing ==
    [][(last'.route \in {"add_new_post", "edit_post"} /\ session[last'.client] = 1)
       => \A f \in PostForms :
             Defective(f)
             => /\ (last'.route = "add_new_post"
                    /\ add_new_post(last'.client, "POST", f))
                   => FormRenderedAgain
                /\ \A id \in DOMAIN posts :
                      (last'.route = "edit_post"
                       /\ edit_post(last'.client, id, "POST", f))
                      => FormRenderedAgain]_vars

(* The administrator has just posted a defective form to /edit-post of an   *)
(* existing post and got the form back.                                     *)
C9_Witness ==
    /\ last.route = "edit_post" /\ last.form = "invalid"
    /\ last.user = 1
    /\ last.code = 200 /\ last.to = "make-post.html"
    /\ posts # <<>>

C6_CommentNeedsLogin ==
    [][last'.route = "show_post"
       => /\ \A id \in SeededPostIds, t \in Texts :
                (/\ t # ""
                 /\ session[last'.client] = 0
                 /\ show_post(last'.client, id, "POST", t))
                => /\ comments' = comments
                   /\ cur' = cur
                   /\ last'.code = 302 /\ last'.to = "login"
          /\ \A i \in DOMAIN comments' \ DOMAIN comments :
                /\ session[last'.client] # 0
                /\ comments'[i].author_id = session[last'.client]]_vars

(* An unauthenticated browser has just posted a comment with text and been  *)
(* sent to the login page.                                                  *)
C6_Witness ==
    /\ last.route = "show_post" /\ last.form = "valid"
    /\ last.user = 0
    /\ last.code = 302 /\ last.to = "login"

(* C8: delete_comment removes a comment only when the session user is the   *)
(* comment's author or user 1.                                              *)
C8_OnlyAuthorOrAdminDeletes ==
    [][last'.route = "delete_comment"
       => \A i \in DOMAIN comments \ DOMAIN comments' :
             last'.user = comments[i].author_id \/ last'.user = 1]_vars

(* C10: every Comment row references an existing BlogPost. *)
C10_CommentHasPost ==
    \A i \in DOMAIN comments : comments[i].post_id \in DOMAIN posts

====
